---- MODULE Spec2Model ----
(***************************************************************************)
(* The index-provisioning custom resource of                               *)
(* src/src/lambda/aoss_index_creator/index.py, as a state machine.         *)
(*                                                                         *)
(* Each invocation of `handler` is a process p \in Procs.  An invocation   *)
(* walks through the handler's statements (pc[p]); every remote call it    *)
(* makes (control-plane status call, signed data-plane request) is one     *)
(* step whose response is chosen by the environment.  The remote index is  *)
(* the only state shared between invocations.                              *)
(*                                                                         *)
(* Time: the clock is read only inside _stabilize_index, so now[p] is the  *)
(* reading of time.time() counted from the moment that call began; it      *)
(* advances by the argument of every time.sleep made there.                *)
(***************************************************************************)
EXTENDS Integers, Sequences, FiniteSets, TLC

\* ---------------------------------------------------------------- bounds
MaxInvocations == 2
MaxItems == 25               \* longest list of records loaded for ingestion

Procs == 1..MaxInvocations

\* ------------------------------------------------------ program constants
max_wait_s == 300            \* _wait_collection_active(max_wait_s=300)
poll_s == 5                  \* _wait_collection_active(poll_s=5)
stabilize_max_wait_s == 300  \* _stabilize_index(max_wait_s=300)
backoff_start_s == 2         \* _stabilize_index(backoff_start_s=2)
backoff_cap_s == 20          \* _stabilize_index(backoff_cap_s=20)
MAX_PER_CALL == 10           \* kb_json_ingestor: MAX_PER_CALL = 10

\* ------------------------------------------------------------ the inputs
\* Strings are sequences of characters; None is the missing property.
None == <<"None">>

RequestTypes == {"Create", "Update", "Delete"}
CollectionNames == {None, <<"c">>}
IndexNames == {None, <<"i">>}
PhysicalResourceIds == {None, <<"o">>}

\* The events the orchestrator sends: a Create carries no
\* PhysicalResourceId, an Update or Delete carries the one it was given.
Events == {ev \in [RequestType : RequestTypes,
                   CollectionName : CollectionNames,
                   IndexName : IndexNames,
                   PhysicalResourceId : PhysicalResourceIds] :
             (ev.RequestType = "Create") <=> (ev.PhysicalResourceId = None)}

NoEvent == [RequestType |-> "", CollectionName |-> None,
            IndexName |-> None, PhysicalResourceId |-> None]

\* str(x) as an f-string formats it
fmt(x) == IF x = None THEN <<"N", "o", "n", "e">> ELSE x

\* Python truthiness of an optional string
falsy(x) == x = None \/ x = <<>>

\* handler: physical_id = f"{collection_name}:{index_name}"
physical_id(collection_name, index_name) ==
  fmt(collection_name) \o <<":">> \o fmt(index_name)

\* ------------------------------------------------------------ the remote
\* What aoss.batch_get_collection can answer: a client error, an answer
\* listing no collection, or the details of the collection; the endpoint
\* is present once the collection is active and may be missing before.
CollectionStatuses == {"CREATING", "ACTIVE", "DELETING", "FAILED"}

BatchGetResponses ==
  {[kind |-> "error", status |-> "", hasEndpoint |-> FALSE],
   [kind |-> "empty", status |-> "", hasEndpoint |-> FALSE]}
  \cup ({[kind |-> "details", status |-> s, hasEndpoint |-> e] :
           s \in CollectionStatuses, e \in BOOLEAN} \
        {[kind |-> "details", status |-> "ACTIVE", hasEndpoint |-> FALSE]})

\* HTTP statuses of the data plane
TransientStatuses == {401, 403, 404, 429, 500, 502, 503}
ConflictStatuses == {400, 409}
CreatedStatuses == {200, 201}

\* What a read of the index (HEAD, GET _mapping, GET _search) can answer:
\* 200 only if the index is there, and even then a replica may lag.
ReadStatuses(present) ==
  IF present THEN {200} \cup TransientStatuses ELSE TransientStatuses

\* What PUT /{index} can answer
PutStatuses(present) ==
  IF present THEN ConflictStatuses \cup TransientStatuses
  ELSE CreatedStatuses \cup {400} \cup TransientStatuses

\* _sign_and_send either raises (no credentials, transport error with
\* retries=False) or returns the response.
Raised == [raised |-> TRUE, status |-> 0]

_sign_and_send(statuses) ==
  {Raised} \cup {[raised |-> FALSE, status |-> s] : s \in statuses}

\* _get_collection_endpoint: the answer of one status call, as the pair
\* (endpoint, status) or the exception raised instead
_get_collection_endpoint(resp) ==
  IF resp.kind = "error" THEN [exc |-> "ClientError", status |-> ""]
  ELSE IF resp.kind = "empty" THEN [exc |-> "RuntimeError", status |-> ""]
  ELSE IF ~resp.hasEndpoint THEN [exc |-> "KeyError", status |-> ""]
  ELSE [exc |-> "", status |-> resp.status]

\* _index_exists: r.status == 200
_index_exists(status) == status = 200

\* _create_index: pr.status not in (200, 201) raises
_create_index_ok(status) == status \in {200, 201}

\* a probe that fails on server errors only
probe_below_500(status) == status < 500

\* a probe that passes on any status but "not found"
probe_not_missing(status) == status # 404

\* a wait loop that forgets to count the time it slept
next_waited_stuck(w) == w

\* _wait_collection_active: waited += poll_s
next_waited(w) == w + poll_s

\* _stabilize_index: a probe passes when its status is 200 (lines 138,
\* 147, 156)
probe_ok(status) == status = 200

\* a backoff that doubles without the cap
next_delay_uncapped(d) == d * 2

\* _stabilize_index: delay = min(delay * 2, backoff_cap_s)
next_delay(d) == IF d * 2 < backoff_cap_s THEN d * 2 ELSE backoff_cap_s

\* The names the module binds at top level; calling any other name raises
\* NameError.
ModuleNames == {"_cf_response", "_sign_and_send", "_get_collection_endpoint",
                "_wait_collection_active", "_index_exists", "_create_index",
                "_stabilize_index", "handler"}

\* ------------------------------------------------------------- the state
VARIABLES
  pc,            \* pc[p]: where invocation p stands in handler
  event,         \* event[p]: the event of invocation p
  waited,        \* _wait_collection_active: waited
  waitSleeps,    \* _wait_collection_active: the argument of each time.sleep
  endpointFrom,  \* status of the answer that supplied `endpoint` (line 194)
  branch,        \* which call of _stabilize_index runs: "exists" | "created"
  now,           \* time.time() since _stabilize_index began
  deadline,      \* _stabilize_index: deadline
  delay,         \* _stabilize_index: delay
  attempt,       \* _stabilize_index: attempt
  probes,        \* statuses answered to the probes of the latest round
  rounds,        \* per finished round: did every probe answer 200
  sleeps,        \* _stabilize_index: the argument of each time.sleep so far
  caught,        \* the exception bound to `e` in handler's except clause
  escaped,       \* the exception that left handler, "" if none
  callbacks,     \* bodies PUT to the event's ResponseURL by invocation p
  issued,        \* kinds of remote calls invocation p has made
  puts,          \* statuses answered to the PUT /{index} of invocation p
  attempted,     \* Data.action of the SUCCESS report handler went to make
  indexPresent,  \* the remote: the index exists in the collection
  \* kb_json_ingestor/index.py, handler
  ipc,           \* where the ingestion handler stands
  items,         \* items: the records loaded from the bucket
  docs,          \* docs: the documents built from the records
  offset,        \* i of `for i in range(0, total, MAX_PER_CALL)`
  ingested,      \* ingested
  total,         \* total
  submitted,     \* the batches handed to ingest_knowledge_base_documents
  succeeded      \* per submitted batch: the call returned (did not raise)

vars == <<pc, event, waited, waitSleeps, endpointFrom, branch, now, deadline, delay,
          attempt, probes, rounds, sleeps, caught, escaped, callbacks,
          issued, puts, attempted, indexPresent,
          ipc, items, docs, offset, ingested, total, submitted, succeeded>>

\* the locals of one call of _stabilize_index
stab == <<branch, now, deadline, delay, attempt, probes, rounds, sleeps>>

\* the state of the ingestion handler (kb_json_ingestor)
ingest == <<ipc, items, docs, offset, ingested, total, submitted, succeeded>>

Init ==
  /\ pc = [p \in Procs |-> "idle"]
  /\ event = [p \in Procs |-> NoEvent]
  /\ waited = [p \in Procs |-> 0]
  /\ waitSleeps = [p \in Procs |-> <<>>]
  /\ endpointFrom = [p \in Procs |-> ""]
  /\ branch = [p \in Procs |-> ""]
  /\ now = [p \in Procs |-> 0]
  /\ deadline = [p \in Procs |-> 0]
  /\ delay = [p \in Procs |-> 0]
  /\ attempt = [p \in Procs |-> 0]
  /\ probes = [p \in Procs |-> <<>>]
  /\ rounds = [p \in Procs |-> <<>>]
  /\ sleeps = [p \in Procs |-> <<>>]
  /\ caught = [p \in Procs |-> ""]
  /\ escaped = [p \in Procs |-> ""]
  /\ callbacks = [p \in Procs |-> <<>>]
  /\ issued = [p \in Procs |-> {}]
  /\ puts = [p \in Procs |-> <<>>]
  /\ attempted = [p \in Procs |-> ""]
  /\ indexPresent \in BOOLEAN
  /\ ipc = "idle"
  /\ items = <<>>
  /\ docs = <<>>
  /\ offset = 0
  /\ ingested = 0
  /\ total = 0
  /\ submitted = <<>>
  /\ succeeded = <<>>

\* an exception raised inside handler's try block: control moves to the
\* except clause with the exception bound
Raise(p, exc) ==
  /\ pc' = [pc EXCEPT ![p] = "except"]
  /\ caught' = [caught EXCEPT ![p] = exc]

\* the entry of _stabilize_index (lines 128-130)
EnterStabilize(p, from) ==
  /\ pc' = [pc EXCEPT ![p] = "stab_head"]
  /\ branch' = [branch EXCEPT ![p] = from]
  /\ now' = [now EXCEPT ![p] = 0]
  /\ deadline' = [deadline EXCEPT ![p] = 0 + stabilize_max_wait_s]
  /\ delay' = [delay EXCEPT ![p] = backoff_start_s]
  /\ attempt' = [attempt EXCEPT ![p] = 0]
  /\ probes' = [probes EXCEPT ![p] = <<>>]
  /\ rounds' = [rounds EXCEPT ![p] = <<>>]
  /\ sleeps' = [sleeps EXCEPT ![p] = <<>>]

\* every probe of a round answered 200
AllOk(sts) == \A i \in 1..Len(sts) : sts[i] = 200

\* a failed probe of _stabilize_index: sleep(delay), double the delay,
\* continue with the next round
RetryRound(p, sts) ==
  /\ pc' = [pc EXCEPT ![p] = "stab_head"]
  /\ now' = [now EXCEPT ![p] = @ + delay[p]]
  /\ delay' = [delay EXCEPT ![p] = next_delay(@)]
  /\ probes' = [probes EXCEPT ![p] = <<>>]
  /\ rounds' = [rounds EXCEPT ![p] = Append(@, AllOk(sts))]
  /\ sleeps' = [sleeps EXCEPT ![p] = Append(@, delay[p])]
  /\ UNCHANGED <<branch, deadline, caught>>

\* invocations run one after the other
Sequential(p) == \A q \in Procs : q < p => pc[q] = "done"

\* handler, lines 173-190, on event ev: Delete, missing property or the
\* Create/Update path
HandlerBody(p, ev) ==
  /\ event' = [event EXCEPT ![p] = ev]
  /\ IF ev.RequestType = "Delete"
       THEN /\ pc' = [pc EXCEPT ![p] = "cfn_delete"]
            /\ UNCHANGED caught
     ELSE IF falsy(ev.CollectionName) \/ falsy(ev.IndexName)
       THEN Raise(p, "ValueError")
     ELSE /\ pc' = [pc EXCEPT ![p] = "wait"]
          /\ UNCHANGED caught
  /\ UNCHANGED <<waited, endpointFrom, stab, escaped, callbacks, issued,
                 puts, attempted, indexPresent>>

\* an invocation of handler begins, after the one before it has ended
HandlerStart(p) ==
  /\ pc[p] = "idle"
  /\ Sequential(p)
  /\ \E ev \in Events : HandlerBody(p, ev)
  /\ UNCHANGED <<waitSleeps, ingest>>

\* _wait_collection_active, lines 62-68: one pass of the loop
WaitPoll(p) ==
  /\ pc[p] = "wait"
  /\ waited[p] <= max_wait_s
  /\ issued' = [issued EXCEPT ![p] = @ \cup {"status"}]
  /\ \E resp \in BatchGetResponses :
       LET r == _get_collection_endpoint(resp) IN
       IF r.exc # ""
         THEN /\ Raise(p, r.exc)
              /\ waited' = [waited EXCEPT ![p] = 0]
              /\ waitSleeps' = [waitSleeps EXCEPT ![p] = <<>>]
       ELSE IF r.status = "ACTIVE"
         THEN /\ pc' = [pc EXCEPT ![p] = "get_endpoint"]
              /\ waited' = [waited EXCEPT ![p] = 0]
              /\ waitSleeps' = [waitSleeps EXCEPT ![p] = <<>>]
              /\ UNCHANGED caught
       ELSE /\ waited' = [waited EXCEPT ![p] = next_waited(@)]
            /\ waitSleeps' = [waitSleeps EXCEPT ![p] = Append(@, poll_s)]
            /\ UNCHANGED <<pc, caught>>
  /\ UNCHANGED <<event, endpointFrom, stab, escaped, callbacks, puts,
                 attempted, indexPresent>>
  /\ UNCHANGED ingest

\* _wait_collection_active, line 69: the loop condition failed
WaitTimeout(p) ==
  /\ pc[p] = "wait"
  /\ ~(waited[p] <= max_wait_s)
  /\ Raise(p, "TimeoutError:collection")
  /\ waited' = [waited EXCEPT ![p] = 0]
  /\ waitSleeps' = [waitSleeps EXCEPT ![p] = <<>>]
  /\ UNCHANGED <<event, endpointFrom, stab, escaped, callbacks,
                 issued, puts, attempted, indexPresent>>
  /\ UNCHANGED ingest

\* handler, lines 194-195: a second status call supplies the endpoint
GetEndpoint(p) ==
  /\ pc[p] = "get_endpoint"
  /\ issued' = [issued EXCEPT ![p] = @ \cup {"status"}]
  /\ \E resp \in BatchGetResponses :
       LET r == _get_collection_endpoint(resp) IN
       IF r.exc # ""
         THEN Raise(p, r.exc) /\ UNCHANGED endpointFrom
       ELSE /\ pc' = [pc EXCEPT ![p] = "exists"]
            /\ endpointFrom' = [endpointFrom EXCEPT ![p] = r.status]
            /\ UNCHANGED caught
  /\ UNCHANGED <<event, waited, stab, escaped, callbacks, puts,
                 attempted, indexPresent>>
  /\ UNCHANGED <<waitSleeps, ingest>>

\* handler line 198 with _index_exists, lines 71-75
IndexExists(p) ==
  /\ pc[p] = "exists"
  /\ issued' = [issued EXCEPT ![p] = @ \cup {"HEAD"}]
  /\ \E r \in _sign_and_send(ReadStatuses(indexPresent)) :
       IF r.raised
         THEN Raise(p, "TransportError") /\ UNCHANGED stab
       ELSE IF _index_exists(r.status)
         THEN EnterStabilize(p, "exists") /\ UNCHANGED caught
       ELSE /\ pc' = [pc EXCEPT ![p] = "create"]
            /\ UNCHANGED <<stab, caught>>
  /\ UNCHANGED <<event, waited, endpointFrom, escaped, callbacks, puts,
                 attempted, indexPresent>>
  /\ UNCHANGED <<waitSleeps, ingest>>

\* handler line 210 with _create_index, lines 111-118
CreateIndex(p) ==
  /\ pc[p] = "create"
  /\ issued' = [issued EXCEPT ![p] = @ \cup {"PUT"}]
  /\ \E r \in _sign_and_send(PutStatuses(indexPresent)) :
       IF r.raised
         THEN /\ Raise(p, "TransportError")
              /\ UNCHANGED <<stab, puts, attempted, indexPresent>>
       ELSE /\ puts' = [puts EXCEPT ![p] = Append(@, r.status)]
            /\ indexPresent' = (indexPresent \/ r.status \in CreatedStatuses)
            /\ IF _create_index_ok(r.status)
                 THEN EnterStabilize(p, "created") /\ UNCHANGED caught
               ELSE Raise(p, "RuntimeError:create") /\ UNCHANGED stab
  /\ UNCHANGED <<event, waited, endpointFrom, escaped, callbacks, attempted>>
  /\ UNCHANGED <<waitSleeps, ingest>>

\* _stabilize_index, lines 132-141: the loop test, then the HEAD probe
StabilizeHead(p) ==
  /\ pc[p] = "stab_head"
  /\ now[p] < deadline[p]
  /\ attempt' = [attempt EXCEPT ![p] = @ + 1]
  /\ issued' = [issued EXCEPT ![p] = @ \cup {"HEAD"}]
  /\ \E r \in _sign_and_send(ReadStatuses(indexPresent)) :
       IF r.raised
         THEN /\ Raise(p, "TransportError")
              /\ UNCHANGED <<branch, now, deadline, delay, probes, rounds,
                             sleeps>>
       ELSE IF ~probe_ok(r.status)
         THEN RetryRound(p, <<r.status>>)
       ELSE /\ pc' = [pc EXCEPT ![p] = "stab_mapping"]
            /\ probes' = [probes EXCEPT ![p] = <<r.status>>]
            /\ UNCHANGED <<branch, now, deadline, delay, rounds, sleeps,
                           caught>>
  /\ UNCHANGED <<event, waited, endpointFrom, escaped, callbacks, puts,
                 attempted, indexPresent>>
  /\ UNCHANGED <<waitSleeps, ingest>>

\* _stabilize_index, lines 143-150: GET /{index}/_mapping
StabilizeMapping(p) ==
  /\ pc[p] = "stab_mapping"
  /\ issued' = [issued EXCEPT ![p] = @ \cup {"GET"}]
  /\ \E r \in _sign_and_send(ReadStatuses(indexPresent)) :
       IF r.raised
         THEN /\ Raise(p, "TransportError")
              /\ UNCHANGED <<branch, now, deadline, delay, probes, rounds,
                             sleeps>>
       ELSE IF ~probe_ok(r.status)
         THEN RetryRound(p, Append(probes[p], r.status))
       ELSE /\ pc' = [pc EXCEPT ![p] = "stab_search"]
            /\ probes' = [probes EXCEPT ![p] = Append(@, r.status)]
            /\ UNCHANGED <<branch, now, deadline, delay, rounds, sleeps,
                           caught>>
  /\ UNCHANGED <<event, waited, endpointFrom, attempt, escaped, callbacks,
                 puts, attempted, indexPresent>>
  /\ UNCHANGED <<waitSleeps, ingest>>

\* _stabilize_index, lines 152-161: GET /{index}/_search?size=0; on 200
\* the call returns to handler, which reports (line 204 or 214)
StabilizeSearch(p) ==
  /\ pc[p] = "stab_search"
  /\ issued' = [issued EXCEPT ![p] = @ \cup {"GET"}]
  /\ \E r \in _sign_and_send(ReadStatuses(indexPresent)) :
       IF r.raised
         THEN /\ Raise(p, "TransportError")
              /\ UNCHANGED <<branch, now, deadline, delay, probes, rounds,
                             sleeps>>
       ELSE IF probe_ok(r.status)
         THEN /\ pc' = [pc EXCEPT ![p] =
                          IF branch[p] = "exists" THEN "cfn_exists"
                          ELSE "cfn_created"]
              /\ probes' = [probes EXCEPT ![p] = Append(@, r.status)]
              /\ rounds' = [rounds EXCEPT ![p] =
                              Append(@, AllOk(Append(probes[p], r.status)))]
              /\ UNCHANGED <<branch, now, deadline, delay, sleeps, caught>>
       ELSE RetryRound(p, Append(probes[p], r.status))
  /\ UNCHANGED <<event, waited, endpointFrom, attempt, escaped, callbacks,
                 puts, attempted, indexPresent>>
  /\ UNCHANGED <<waitSleeps, ingest>>

\* _stabilize_index, line 163: the deadline passed
StabilizeTimeout(p) ==
  /\ pc[p] = "stab_head"
  /\ ~(now[p] < deadline[p])
  /\ Raise(p, "TimeoutError:index")
  /\ UNCHANGED <<event, waited, endpointFrom, stab, escaped, callbacks,
                 issued, puts, attempted, indexPresent>>
  /\ UNCHANGED <<waitSleeps, ingest>>

\* handler, lines 185, 204, 214: the call of _cfn_response inside the try
\* block.  The module binds no such name (it defines _cf_response), so
\* the call raises NameError before anything is sent.
CfnResponseCall(p) ==
  /\ pc[p] \in {"cfn_delete", "cfn_exists", "cfn_created"}
  /\ "_cfn_response" \notin ModuleNames
  /\ Raise(p, "NameError")
  /\ attempted' = [attempted EXCEPT ![p] =
                     CASE pc[p] = "cfn_delete" -> "delete_noop"
                       [] pc[p] = "cfn_exists" -> "exists"
                       [] pc[p] = "cfn_created" -> "created"]
  /\ UNCHANGED <<event, waited, endpointFrom, stab, escaped, callbacks,
                 issued, puts, indexPresent>>
  /\ UNCHANGED <<waitSleeps, ingest>>

\* handler, lines 217-221: the except clause builds the reason and calls
\* _cfn_response again; that NameError leaves handler, whose locals go.
ExceptClause(p) ==
  /\ pc[p] = "except"
  /\ "_cfn_response" \notin ModuleNames
  /\ escaped' = [escaped EXCEPT ![p] = "NameError"]
  /\ pc' = [pc EXCEPT ![p] = "done"]
  /\ waited' = [waited EXCEPT ![p] = 0]
  /\ endpointFrom' = [endpointFrom EXCEPT ![p] = ""]
  /\ branch' = [branch EXCEPT ![p] = ""]
  /\ now' = [now EXCEPT ![p] = 0]
  /\ deadline' = [deadline EXCEPT ![p] = 0]
  /\ delay' = [delay EXCEPT ![p] = 0]
  /\ attempt' = [attempt EXCEPT ![p] = 0]
  /\ probes' = [probes EXCEPT ![p] = <<>>]
  /\ rounds' = [rounds EXCEPT ![p] = <<>>]
  /\ sleeps' = [sleeps EXCEPT ![p] = <<>>]
  /\ caught' = [caught EXCEPT ![p] = ""]
  /\ puts' = [puts EXCEPT ![p] = <<>>]
  /\ UNCHANGED <<event, callbacks, issued, attempted, indexPresent>>
  /\ UNCHANGED <<waitSleeps, ingest>>

Next ==
  \E p \in Procs :
    \/ HandlerStart(p)
    \/ WaitPoll(p)
    \/ WaitTimeout(p)
    \/ GetEndpoint(p)
    \/ IndexExists(p)
    \/ CreateIndex(p)
    \/ StabilizeHead(p)
    \/ StabilizeMapping(p)
    \/ StabilizeSearch(p)
    \/ StabilizeTimeout(p)
    \/ CfnResponseCall(p)
    \/ ExceptClause(p)

Spec == Init /\ [][Next]_vars

\* Invocations that overlap.  The orchestrator sent a Create for the same
\* collection and index to every invocation, and each has found the
\* collection ACTIVE and taken its endpoint (line 194); from there they
\* run side by side against the one remote index.
RaceEvents ==
  {ev \in Events : /\ ev.RequestType = "Create"
                   /\ ~falsy(ev.CollectionName)
                   /\ ~falsy(ev.IndexName)}

InitRace ==
  /\ pc = [p \in Procs |-> "exists"]
  /\ \E ev \in RaceEvents : event = [p \in Procs |-> ev]
  /\ waited = [p \in Procs |-> 0]
  /\ waitSleeps = [p \in Procs |-> <<>>]
  /\ endpointFrom = [p \in Procs |-> "ACTIVE"]
  /\ branch = [p \in Procs |-> ""]
  /\ now = [p \in Procs |-> 0]
  /\ deadline = [p \in Procs |-> 0]
  /\ delay = [p \in Procs |-> 0]
  /\ attempt = [p \in Procs |-> 0]
  /\ probes = [p \in Procs |-> <<>>]
  /\ rounds = [p \in Procs |-> <<>>]
  /\ sleeps = [p \in Procs |-> <<>>]
  /\ caught = [p \in Procs |-> ""]
  /\ escaped = [p \in Procs |-> ""]
  /\ callbacks = [p \in Procs |-> <<>>]
  /\ issued = [p \in Procs |-> {"status"}]
  /\ puts = [p \in Procs |-> <<>>]
  /\ attempted = [p \in Procs |-> ""]
  /\ indexPresent \in BOOLEAN
  /\ ipc = "idle"
  /\ items = <<>>
  /\ docs = <<>>
  /\ offset = 0
  /\ ingested = 0
  /\ total = 0
  /\ submitted = <<>>
  /\ succeeded = <<>>

NextRace ==
  \E p \in Procs :
    \/ IndexExists(p)
    \/ CreateIndex(p)
    \/ StabilizeHead(p)
    \/ StabilizeMapping(p)
    \/ StabilizeSearch(p)
    \/ StabilizeTimeout(p)
    \/ CfnResponseCall(p)
    \/ ExceptClause(p)

SpecRace == InitRace /\ [][NextRace]_vars

\* One invocation on its own, from either state of the remote.  handler is
\* a single thread of control that keeps running until it returns or
\* raises, hence the weak fairness of its steps.
FirstNext ==
  \/ HandlerStart(1)
  \/ WaitPoll(1)
  \/ WaitTimeout(1)
  \/ GetEndpoint(1)
  \/ IndexExists(1)
  \/ CreateIndex(1)
  \/ StabilizeHead(1)
  \/ StabilizeMapping(1)
  \/ StabilizeSearch(1)
  \/ StabilizeTimeout(1)
  \/ CfnResponseCall(1)
  \/ ExceptClause(1)

SpecFirst == Init /\ [][FirstNext]_vars /\ WF_vars(FirstNext)

\* ======================================= kb_json_ingestor/index.py
\* the state of the index creator, which ingestion leaves alone
creator == <<pc, event, waited, waitSleeps, endpointFrom, stab, caught,
             escaped, callbacks, issued, puts, attempted, indexPresent>>

\* event_date values of a record: absent or empty, a date, not a date
Dates == {"", "2024-05-01", "05/01/2024"}

\* to_epoch_midnight: strptime(date_iso, "%Y-%m-%d") raises ValueError on
\* anything else than a date; the result is the epoch of its midnight UTC
to_epoch_midnight(date_iso) ==
  IF date_iso = "2024-05-01" THEN [raised |-> FALSE, epoch |-> 1714521600]
  ELSE [raised |-> TRUE, epoch |-> 0]

\* build_doc raises on this record (line 24)
build_doc_raises(evt) ==
  evt.event_date # "" /\ to_epoch_midnight(evt.event_date).raised

\* build_doc: the document of a record, its identifier and its epoch
build_doc(evt) ==
  [id |-> <<evt.key, evt.event_date>>,
   epoch |-> IF evt.event_date # ""
               THEN to_epoch_midnight(evt.event_date).epoch ELSE 0]

\* the lists of records loaded: n records with a date, and the same with
\* one record whose event_date is empty or not a date
Records(n, k, d) ==
  [i \in 1..n |-> [key |-> i,
                   event_date |-> IF i = k THEN d ELSE "2024-05-01"]]

ItemLists ==
  {Records(n, 0, "") : n \in 0..MaxItems}
  \cup {Records(n, k, d) : n \in 1..MaxItems, k \in 1..MaxItems, d \in Dates}

Min(a, b) == IF a < b THEN a ELSE b

\* a slice that loses its last document
batch_short(sq, i) == SubSeq(sq, i + 1, Min(i + MAX_PER_CALL - 1, Len(sq)))

\* docs[i:i+MAX_PER_CALL]
batch_of(sq, i) == SubSeq(sq, i + 1, Min(i + MAX_PER_CALL, Len(sq)))

\* handler, lines 53-59: the records are read from the bucket
IngestLoad ==
  /\ ipc = "idle"
  /\ \E l \in ItemLists : items' = l
  /\ ipc' = "build"
  /\ UNCHANGED <<docs, offset, ingested, total, submitted, succeeded>>
  /\ UNCHANGED creator

\* handler, lines 61-66: docs = [build_doc(evt) for evt in items]; a
\* record build_doc raises on ends the handler there
IngestBuild ==
  /\ ipc = "build"
  /\ IF \E i \in 1..Len(items) : build_doc_raises(items[i])
       THEN /\ ipc' = "raised"
            /\ UNCHANGED <<docs, total, ingested, offset>>
     ELSE /\ docs' = [i \in 1..Len(items) |-> build_doc(items[i])]
          /\ total' = Len(items)
          /\ ingested' = 0
          /\ offset' = 0
          /\ ipc' = "loop"
  /\ UNCHANGED <<items, submitted, succeeded>>
  /\ UNCHANGED creator

\* handler, lines 67-78: one pass of the loop; the ingestion call returns
\* or raises, and only a call that returned is counted
IngestBatch ==
  /\ ipc = "loop"
  /\ offset < total
  /\ LET batch == batch_of(docs, offset) IN
     \E returned \in BOOLEAN :
       /\ submitted' = Append(submitted, batch)
       /\ succeeded' = Append(succeeded, returned)
       /\ ingested' = IF returned THEN ingested + Len(batch) ELSE ingested
  /\ offset' = offset + MAX_PER_CALL
  /\ UNCHANGED <<ipc, items, docs, total>>
  /\ UNCHANGED creator

\* handler, line 80: the loop is over
IngestReturn ==
  /\ ipc = "loop"
  /\ ~(offset < total)
  /\ ipc' = "returned"
  /\ UNCHANGED <<items, docs, offset, ingested, total, submitted, succeeded>>
  /\ UNCHANGED creator

NextIngest == IngestLoad \/ IngestBuild \/ IngestBatch \/ IngestReturn

SpecIngest == Init /\ [][NextIngest]_vars

\* ============================================================ properties
Last(sq) == sq[Len(sq)]

CreateOrUpdate(p) == event[p].RequestType \in {"Create", "Update"}

\* invocation p sent exactly one callback, with this Status
Reported(p, status) ==
  /\ Len(callbacks[p]) = 1
  /\ callbacks[p][1].Status = status

\* ... and with this Data.action
ReportedAction(p, status, action) ==
  /\ Reported(p, status)
  /\ callbacks[p][1].Data = action

\* p and q are Create/Update invocations for the same collection and index
SameIndex(p, q) ==
  /\ CreateOrUpdate(p) /\ CreateOrUpdate(q)
  /\ ~falsy(event[p].CollectionName) /\ ~falsy(event[p].IndexName)
  /\ event[p].CollectionName = event[q].CollectionName
  /\ event[p].IndexName = event[q].IndexName

\* C1: every invocation that has ended sent exactly one completion
\* callback, and no invocation ever sends more than one.
C1_ExactlyOneCallback ==
  \A p \in Procs :
    /\ Len(callbacks[p]) <= 1
    /\ pc[p] = "done" => Len(callbacks[p]) = 1

\* C2: a Delete invocation issues no control-plane and no data-plane call
\* and, once ended, has reported SUCCESS.
C2_DeleteNoop ==
  \A p \in Procs :
    event[p].RequestType = "Delete" =>
      /\ issued[p] = {}
      /\ pc[p] = "done" => Reported(p, "SUCCESS")

\* The part of C2 about remote calls alone: a Delete issues none.
DeleteIssuesNoCall ==
  \A p \in Procs : event[p].RequestType = "Delete" => issued[p] = {}

\* C3: two runs in sequence for the same index, the first creating it and
\* the remote letting the second through to its report: the first reports
\* SUCCESS "created", the second SUCCESS "exists" without any PUT.
C3_Idempotent ==
  \A p, q \in Procs :
    ( /\ q = p + 1
      /\ pc[p] = "done" /\ pc[q] = "done"
      /\ SameIndex(p, q)
      /\ attempted[p] = "created"
      /\ attempted[q] # "" )
    => /\ ReportedAction(p, "SUCCESS", "created")
       /\ ReportedAction(q, "SUCCESS", "exists")
       /\ escaped[q] = ""
       /\ "PUT" \notin issued[q]

\* C4: a creation call answered 400 or 409 raises no error.
C4_ConflictCollapse ==
  \A p \in Procs :
    (puts[p] # <<>> /\ Last(puts[p]) \in ConflictStatuses)
    => caught[p] # "RuntimeError:create"

\* C5: a transient status answered to one of the first four creation
\* calls is not surfaced as an error (the call is issued again).
C5_TransientRetried ==
  \A p \in Procs :
    (puts[p] # <<>> /\ Len(puts[p]) <= 4
       /\ Last(puts[p]) \in TransientStatuses)
    => caught[p] # "RuntimeError:create"

\* C6: when _stabilize_index has returned, the last three rounds were
\* rounds in which every probe answered 200.
C6_ThreeConsecutive ==
  \A p \in Procs :
    pc[p] \in {"cfn_exists", "cfn_created"} =>
      /\ Len(rounds[p]) >= 3
      /\ \A i \in (Len(rounds[p]) - 2)..Len(rounds[p]) : rounds[p][i]

\* invocation p makes a SUCCESS report in this step: handler goes to call
\* _cfn_response with "SUCCESS", or a SUCCESS callback is sent
ReportsSuccess(p) ==
  \/ attempted'[p] # attempted[p]
  \/ /\ Len(callbacks'[p]) > Len(callbacks[p])
     /\ Last(callbacks'[p]).Status = "SUCCESS"

\* the last finished round of _stabilize_index of invocation p had every
\* probe answer 200
StabilizedOk(p) == rounds[p] # <<>> /\ Last(rounds[p])

\* C7: on the Create/Update path a SUCCESS report is made only after a
\* stabilization round of the same invocation in which all probes
\* answered 200.
C7_SuccessAfterStabilization ==
  [][\A p \in Procs :
       (CreateOrUpdate(p) /\ ReportsSuccess(p)) => StabilizedOk(p)]_vars

\* C7 witness: handler went to report SUCCESS on the Create/Update path,
\* on either branch, after an all-200 round.
C7_Witness ==
  \E p \in Procs :
    /\ CreateOrUpdate(p)
    /\ attempted[p] \in {"exists", "created"}
    /\ pc[p] = "except"
    /\ StabilizedOk(p)

\* C8: a PUT is issued only after an existence probe of the same
\* invocation found the index absent; when the probe found it, no PUT is
\* issued and the ended invocation has reported SUCCESS "exists".
C8_ExistsSkipsCreate ==
  \A p \in Procs :
    /\ "PUT" \in issued[p] => ("HEAD" \in issued[p] /\ attempted[p] # "exists")
    /\ (pc[p] = "done" /\ attempted[p] = "exists") =>
         ("PUT" \notin issued[p] /\ ReportedAction(p, "SUCCESS", "exists"))

\* The part of C8 about the calls alone.
PutOnlyWhenAbsent ==
  \A p \in Procs :
    /\ "PUT" \in issued[p] => ("HEAD" \in issued[p] /\ attempted[p] # "exists")
    /\ attempted[p] = "exists" => "PUT" \notin issued[p]

\* C9: an invocation whose collection wait timed out ends having reported
\* FAILED with the timeout as reason, and having issued no data-plane call.
C9_ReadinessTimeout ==
  [][\A p \in Procs :
       (pc[p] = "except" /\ caught[p] = "TimeoutError:collection"
          /\ pc'[p] = "done")
       => /\ issued'[p] \subseteq {"status"}
          /\ Reported(p, "FAILED")'
          /\ callbacks'[p][1].Reason = caught[p]]_vars

\* The part of C9 about the calls alone.
TimeoutIssuesNoDataPlaneCall ==
  \A p \in Procs :
    (pc[p] = "except" /\ caught[p] = "TimeoutError:collection")
    => issued[p] = {"status"}

\* C10: two ended Create/Update invocations for the same collection and
\* index each reported a PhysicalResourceId, and the same one.
C10_DeterministicPhysicalId ==
  \A p, q \in Procs :
    (p # q /\ pc[p] = "done" /\ pc[q] = "done" /\ SameIndex(p, q))
    => /\ Len(callbacks[p]) = 1 /\ Len(callbacks[q]) = 1
       /\ callbacks[p][1].PhysicalResourceId
            = callbacks[q][1].PhysicalResourceId

\* consecutive elements of sq never decrease
NonDecreasing(sq) == \A i \in 1..(Len(sq) - 1) : sq[i] <= sq[i + 1]

\* every element of sq is at most cap
BoundedBy(sq, cap) == \A i \in 1..Len(sq) : sq[i] <= cap

\* C11: in both retry loops the delays slept are non-decreasing and at
\* most the loop's cap (poll_s for the collection wait, backoff_cap_s for
\* stabilization); the stabilization delays start at backoff_start_s and
\* each next one is min(previous * 2, backoff_cap_s).
C11_BackoffMonotone ==
  \A p \in Procs :
    /\ NonDecreasing(waitSleeps[p]) /\ BoundedBy(waitSleeps[p], poll_s)
    /\ NonDecreasing(sleeps[p]) /\ BoundedBy(sleeps[p], backoff_cap_s)
    /\ sleeps[p] # <<>> => sleeps[p][1] = backoff_start_s
    /\ \A i \in 1..(Len(sleeps[p]) - 1) :
         sleeps[p][i + 1] = IF sleeps[p][i] * 2 <= backoff_cap_s
                              THEN sleeps[p][i] * 2 ELSE backoff_cap_s

\* C11 witness: a stabilization loop that has slept past the point where
\* doubling would exceed the cap.
C11_Witness ==
  \E p \in Procs :
    /\ Len(sleeps[p]) >= 6
    /\ sleeps[p][4] < backoff_cap_s
    /\ sleeps[p][6] = backoff_cap_s

\* C13: an invocation polls and probes a bounded number of times (at most
\* max_wait_s / poll_s + 1 sleeps of the collection wait, at most
\* stabilize_max_wait_s / backoff_start_s rounds of stabilization), and it
\* ends, whatever the remote answers.
C13_Terminates ==
  /\ [](/\ Len(waitSleeps[1]) <= (max_wait_s \div poll_s) + 1
        /\ Len(rounds[1]) <= stabilize_max_wait_s \div backoff_start_s)
  /\ <>(pc[1] = "done")

\* C13 witness: a remote that never let stabilization pass; the loop gave
\* up at its deadline.
C13_Witness ==
  /\ pc[1] = "except"
  /\ caught[1] = "TimeoutError:index"
  /\ now[1] >= deadline[1]
  /\ \A i \in 1..Len(rounds[1]) : ~rounds[1][i]

\* C14: _stabilize_index returns only on a round whose three probes all
\* answered 200, and within a round a probe is made only after the
\* probes before it, of that same round, answered 200.
C14_RoundAllProbes ==
  \A p \in Procs :
    /\ pc[p] \in {"cfn_exists", "cfn_created"} => probes[p] = <<200, 200, 200>>
    /\ pc[p] = "stab_head" => probes[p] = <<>>
    /\ pc[p] = "stab_mapping" => probes[p] = <<200>>
    /\ pc[p] = "stab_search" => probes[p] = <<200, 200>>

\* C14 witness: the stabilizer returned after at least one failed round.
C14_Witness ==
  \E p \in Procs :
    /\ pc[p] \in {"cfn_exists", "cfn_created"}
    /\ Len(rounds[p]) >= 2
    /\ ~rounds[p][1]
    /\ probes[p] = <<200, 200, 200>>

\* C12: when two overlapping Create invocations for the same index both
\* issue the creation call, the one answered "already exists" (400/409)
\* after the other's call was accepted raises no error, and once both
\* have ended both have reported SUCCESS.
C12_RaceBothSucceed ==
  \A p, q \in Procs :
    (p # q /\ SameIndex(p, q)) =>
      /\ ( /\ puts[q] # <<>> /\ Last(puts[q]) \in CreatedStatuses
           /\ puts[p] # <<>> /\ Last(puts[p]) \in ConflictStatuses )
         => caught[p] # "RuntimeError:create"
      /\ ( /\ pc[p] = "done" /\ pc[q] = "done"
           /\ attempted[q] = "created" /\ "PUT" \in issued[p] )
         => (Reported(p, "SUCCESS") /\ Reported(q, "SUCCESS"))

\* C15: in the collection wait, a status call that raises or lists no
\* collection does not abort the invocation: the wait goes on.
C15_StatusErrorIsNotYet ==
  [][\A p \in Procs :
       (pc[p] = "wait" /\ pc'[p] = "except")
       => caught'[p] \notin {"ClientError", "RuntimeError"}]_vars

\* C16: every data-plane call of a running invocation goes to an
\* endpoint taken from a status answer that reported the collection
\* ACTIVE.
C16_EndpointFromActive ==
  \A p \in Procs :
    (pc[p] # "done" /\ issued[p] \cap {"HEAD", "PUT", "GET"} # {})
    => endpointFrom[p] = "ACTIVE"

\* C17: an invocation whose stabilization ran out of time ends having
\* reported FAILED, with the stabilization timeout as reason, on either
\* branch; it never went to report SUCCESS.
C17_StabilizationTimeoutFails ==
  [][\A p \in Procs :
       (pc[p] = "except" /\ caught[p] = "TimeoutError:index"
          /\ pc'[p] = "done")
       => /\ attempted[p] = ""
          /\ Reported(p, "FAILED")'
          /\ callbacks'[p][1].Reason = caught[p]]_vars

\* The part of C17 that is about SUCCESS alone: after a stabilization
\* timeout handler never goes to report SUCCESS, on either branch.
StabilizationTimeoutNeverSuccess ==
  \A p \in Procs :
    (pc[p] = "except" /\ caught[p] = "TimeoutError:index")
    => (attempted[p] = "" /\ branch[p] \in {"exists", "created"})

\* a Create/Update event lacking the collection name or the index name
MissingProperty(p) ==
  /\ CreateOrUpdate(p)
  /\ falsy(event[p].CollectionName) \/ falsy(event[p].IndexName)

\* C18: a Create/Update invocation lacking a required property issues no
\* remote call and ends having reported FAILED.
C18_ConfigurationError ==
  \A p \in Procs :
    MissingProperty(p) =>
      /\ issued[p] = {}
      /\ pc[p] = "done" => Reported(p, "FAILED")

\* The part of C18 about remote calls alone.
MissingPropertyIssuesNoCall ==
  \A p \in Procs : MissingProperty(p) => issued[p] = {}

\* C19: the first existence probe (HEAD /{index}) comes after a signed
\* GET on the data-plane root: an invocation that has issued a HEAD has
\* issued the root probe "GET /".
C19_PreflightBeforeExists ==
  \A p \in Procs :
    /\ issued[p] \cap {"HEAD", "PUT", "GET"} # {} => "GET /" \in issued[p]
    /\ "HEAD" \in issued[p] => "status" \in issued[p]

\* The part of C19 the code keeps: the collection wait comes first.
WaitBeforeDataPlane ==
  \A p \in Procs :
    issued[p] \cap {"HEAD", "PUT", "GET"} # {} => "status" \in issued[p]

\* the batches laid end to end
RECURSIVE Flatten(_)
Flatten(batches) ==
  IF batches = <<>> THEN <<>>
  ELSE Flatten(SubSeq(batches, 1, Len(batches) - 1)) \o Last(batches)

\* the number of documents in the batches whose call returned
RECURSIVE SizeReturned(_, _)
SizeReturned(batches, oks) ==
  IF batches = <<>> THEN 0
  ELSE SizeReturned(SubSeq(batches, 1, Len(batches) - 1),
                    SubSeq(oks, 1, Len(oks) - 1))
       + (IF Last(oks) THEN Len(Last(batches)) ELSE 0)

\* what the batching claim says of a finished ingestion
BatchingHolds ==
  /\ Flatten(submitted) = [i \in 1..Len(items) |-> build_doc(items[i])]
  /\ \A k \in 1..Len(submitted) :
       Len(submitted[k]) >= 1 /\ Len(submitted[k]) <= MAX_PER_CALL
  /\ Len(succeeded) = Len(submitted)
  /\ ingested = SizeReturned(submitted, succeeded)
  /\ 0 <= ingested /\ ingested <= total /\ total = Len(items)

\* build_doc accepts every record of the list
AllBuildable == \A i \in 1..Len(items) : ~build_doc_raises(items[i])

====
